---- MODULE Spec2Model ----
(***************************************************************************)
(* Gemini Tasks: the task list of App.tsx, its reminder scanner            *)
(* (checkReminders), the recurrence roll-forward of toggleTask, and the    *)
(* optimistic add followed by the asynchronous analyzeTask patch.          *)
(*                                                                         *)
(* Time is counted in whole hours since 1970-01-01T00:00Z.  A JavaScript   *)
(* Date is its time value (NaT for an Invalid Date); the local-time        *)
(* getters and setters go through the civil calendar with a fixed offset   *)
(* tz (hours east of UTC; daylight-saving changes are not modelled).       *)
(*                                                                         *)
(* scheduleNativeNotification (App.tsx:191) returns at once unless         *)
(* Notification.prototype has showTrigger, which no released browser has:  *)
(* it adds no step.  A setTasks updater runs to its end before the next    *)
(* one starts, so each handler is one step; an updater that throws leaves  *)
(* the list as it was and unmounts the application (crashed).              *)
(*                                                                         *)
(* The list is kept in localStorage as JSON and read back when the page is *)
(* opened again (Restart); breakDownTask replaces the subtasks of a task   *)
(* when its reply arrives.  Spec is the application in one session;        *)
(* SpecBreakdown, SpecStore, SpecTicking, SpecRoll, SpecConsent and        *)
(* SpecIds take the steps that the breakdown, the restarts, the ticking    *)
(* timer, the recurrence arithmetic, the notification permission and the   *)
(* ids of tasks and subtasks need, from the same actions.                  *)
(***************************************************************************)
EXTENDS Integers, Sequences, FiniteSets, TLC

VARIABLES
    tasks,            \* App.tsx:52   the task list (React state), head first
    now,              \* Date.now(), in hours
    tz,               \* local offset from UTC of the browser, in hours
    pending,          \* outstanding analyzeTask calls: [id, input, typed]
    nextId,           \* stands for crypto.randomUUID(): the next fresh id
    permission,       \* Notification.permission of the browser
    permissionStatus, \* App.tsx:60   React copy of the permission
    promptOpen,       \* a Notification.requestPermission() call is outstanding
    audioCtx,         \* App.tsx:9    TRUE once the AudioContext exists
    emitted,          \* notifications shown by the last step, in order
    tones,            \* alarm tones played by the last step (ids of their tasks)
    crashed,          \* an updater threw: React unmounted the application
    logged,           \* console.error lines written by the last step
    rolls,            \* how many times toggleTask has rolled a reminder forward
    generating,       \* TaskItem: ids of the tasks whose card has isGenerating set
    orphaned,         \* per task id: breakDownTask calls of cards now unmounted
    storage,          \* localStorage: what is kept under 'gemini-tasks'
    saved             \* App.tsx:53  what getItem returned when the application started

vars == << tasks, now, tz, pending, nextId, permission, permissionStatus,
           promptOpen, audioCtx, emitted, tones, crashed, logged, rolls,
           generating, orphaned, storage, saved >>

----------------------------------------------------------------------------
(* Bounds of the model *)

\* at most this many tasks in the list at a time
MaxTasks == 2
\* at most this many ids are ever drawn from crypto.randomUUID()
MaxIds == 2
\* at most this many subtasks per task
MaxSubtasks == 1
\* at most this many recurrence roll-forwards in a run
MaxRolls == 1
\* at most this many outstanding breakdown calls of unmounted cards per task
MaxOrphans == 1

\* the same two, where a task is to hold more than one subtask
MoreIds == 4
MoreSubtasks == 2

\* every id crypto.randomUUID() can have handed out
AllIds == 1 .. MaxIds
MoreOfIds == 1 .. MoreIds

\* no breakdown call is outstanding for a card that is gone
NoOrphans == [id \in AllIds |-> 0]

----------------------------------------------------------------------------
(* Calendar arithmetic of the JavaScript Date object *)

\* the time value of an Invalid Date (NaN)
NaT == -1

HoursPerDay == 24

IsLeap(y) == (y % 4 = 0 /\ y % 100 # 0) \/ y % 400 = 0

DaysInMonth(y, m) ==
    IF m = 2 THEN (IF IsLeap(y) THEN 29 ELSE 28)
    ELSE IF m \in {4, 6, 9, 11} THEN 30 ELSE 31

\* ECMAScript MakeDay: days since the epoch of year y, month m (1..12 after the
\* carry of months into years), day d; d may lie outside the month and then
\* runs over into the neighbouring months.
MakeDay[y \in Int, m \in Int, d \in Int] ==
    LET yy  == y + ((m - 1) \div 12)
        mm  == ((m - 1) % 12) + 1
        ya  == IF mm <= 2 THEN yy - 1 ELSE yy
        era == ya \div 400
        yoe == ya - era * 400
        mp  == IF mm > 2 THEN mm - 3 ELSE mm + 9
        doy == ((153 * mp + 2) \div 5) + d - 1
        doe == yoe * 365 + (yoe \div 4) - (yoe \div 100) + doy
    IN  era * 146097 + doe - 719468

\* ECMAScript YearFromTime / MonthFromTime / DateFromTime of a day number
CivilFromDays[z \in Int] ==
    LET zz  == z + 719468
        era == zz \div 146097
        doe == zz - era * 146097
        yoe == (doe - (doe \div 1460) + (doe \div 36524) - (doe \div 146096)) \div 365
        doy == doe - (365 * yoe + (yoe \div 4) - (yoe \div 100))
        mp  == (5 * doy + 2) \div 153
        d   == doy - ((153 * mp + 2) \div 5) + 1
        m   == IF mp < 10 THEN mp + 3 ELSE mp - 9
        y   == yoe + era * 400 + (IF m <= 2 THEN 1 ELSE 0)
    IN  [y |-> y, m |-> m, d |-> d]

\* the local fields of time value t (getFullYear, getMonth + 1, getDate, getHours)
LocalFields(t, off) ==
    [h |-> (t + off) % HoursPerDay] @@ CivilFromDays[(t + off) \div HoursPerDay]

\* the time value of the local date and hour (MakeDate, then UTC(...))
MakeLocal(y, m, d, h, off) == MakeDay[y, m, d] * HoursPerDay + h - off

\* the fields of a Date: year, month, day of the month, hour
DateFields == [y : Int, m : Int, d : Int, h : Int]

\* the time value of a Date whose local fields a setter has left as f: a day
\* or a month out of its range carries over
FromLocal[f \in DateFields, off \in Int] ==
    MakeLocal(f.y, f.m, f.d, f.h, off)

----------------------------------------------------------------------------
(* Strings, optional values and ISO timestamps *)

\* A string is a sequence of characters.  String.prototype.trim:
RECURSIVE TrimStart(_)
TrimStart(s) == IF s # << >> /\ Head(s) = " " THEN TrimStart(Tail(s)) ELSE s

RECURSIVE TrimEnd(_)
TrimEnd(s) ==
    IF s # << >> /\ s[Len(s)] = " " THEN TrimEnd(SubSeq(s, 1, Len(s) - 1)) ELSE s

Trim(s) == TrimEnd(TrimStart(s))

\* An optional value (x?: T) is << >> when undefined and << v >> when set.
\* An optional enumeration is the string "undefined" when not set.
Undefined == "undefined"

\* An ISO string is its format and the number it spells:
\*   "ms"    2024-01-10T09:00:00.000Z  what Date.prototype.toISOString writes
\*   "Z"     2024-01-10T09:00:00Z      UTC without the milliseconds
\*   "local" 2024-01-10T09:00:00       no designator: read as local time
\*   Undefined                          the field is missing
Iso(fmt, val) == [fmt |-> fmt, val |-> val]

NoIso == Iso(Undefined, 0)

\* new Date(isoString).getTime()
DateParse(iso, off) ==
    IF iso.fmt \in {"ms", "Z"} THEN iso.val
    ELSE IF iso.fmt = "local" THEN iso.val - off
    ELSE NaT

\* Date.prototype.toISOString of a valid time value
ToISOString(t) == Iso("ms", t)

\* the hour of a calendar date, as a UTC time value
At(y, m, d, h) == MakeDay[y, m, d] * HoursPerDay + h

----------------------------------------------------------------------------
(* Records of types.ts *)

Recurrences == {"daily", "weekly", "monthly", "yearly"}

SubTask(id, text) == [id |-> id, text |-> text, completed |-> FALSE]

Reminder(iso, rec, notified, type) ==
    [isoString |-> iso, recurrence |-> rec, hasNotified |-> notified, type |-> type]

PlaceholderCategory == "..."
DefaultCategory == "memo"

\* mutant: every optimistic record carries the same id
TempTaskOfOneId(tempId, rawInput, t) ==
    [id |-> 1, text |-> rawInput, completed |-> FALSE, createdAt |-> t,
     subtasks |-> << >>, category |-> PlaceholderCategory, reminder |-> << >>]

\* the optimistic record of handleAddTask
TempTask(tempId, rawInput, t) ==
    [id |-> tempId, text |-> rawInput, completed |-> FALSE, createdAt |-> t,
     subtasks |-> << >>, category |-> PlaceholderCategory, reminder |-> << >>]

HasReminder(task) == task.reminder # << >>
Rem(task) == task.reminder[1]

\* truthiness of the optional fields
Notified(r) == r.hasNotified = "true"
Recurs(r) == r.recurrence # Undefined

Ids(list) == {list[i].id : i \in DOMAIN list}
TaskOf(list, id) == list[CHOOSE i \in DOMAIN list : list[i].id = id]

----------------------------------------------------------------------------
(* services/geminiService.ts: analyzeTask *)

\* What generateContent can give back for the analyze request:
\*   "error"    the request rejects (network, quota)
\*   "empty"    response.text is empty
\*   "garbage"  response.text is not JSON
\*   "null"     response.text is the JSON value null
\*   "json"     response.text is a JSON object, data; its fields are optional
Failure(kind) == [kind |-> kind, data |-> << >>]

Json(text, category, reminder) ==
    [kind |-> "json",
     data |-> << [text |-> text, category |-> category, reminder |-> reminder] >>]

\* the reminder object of a reply carries what the response schema names
ReplyReminder(iso, rec) == << Reminder(iso, rec, Undefined, Undefined) >>

\* mutant: the catch block names no category
FallbackWithoutCategory(input) ==
    [text |-> input, category |-> PlaceholderCategory, reminder |-> << >>]

\* the fallback of the catch block
Fallback(input) == [text |-> input, category |-> DefaultCategory, reminder |-> << >>]

\* the reply sends analyzeTask into its catch block
Fails(reply) == reply.kind # "json"

\* mutant: analyzeTask leaves out a reminder whose time has passed
analyzeTaskDroppingPast(input, reply) ==
    IF reply.kind = "json"
    THEN LET data == reply.data[1]
             past == /\ data.reminder # << >>
                     /\ DateParse(data.reminder[1].isoString, tz) # NaT
                     /\ DateParse(data.reminder[1].isoString, tz) < now
         IN  [text     |-> IF data.text # << >> /\ data.text[1] # << >>
                           THEN data.text[1] ELSE input,
              category |-> IF data.category # << >> THEN data.category[1]
                           ELSE DefaultCategory,
              reminder |-> IF past THEN << >> ELSE data.reminder]
    ELSE Fallback(input)

\* analyzeTask(input), given the reply of the service.  JSON.parse throws on
\* "garbage", data.text throws on null, an empty text throws "Empty response":
\* all three end in the catch block, as a rejected request does.
analyzeTask(input, reply) ==
    IF reply.kind = "json"
    THEN LET data == reply.data[1]
         IN  [text     |-> IF data.text # << >> /\ data.text[1] # << >>
                           THEN data.text[1] ELSE input,
              category |-> IF data.category # << >> THEN data.category[1]
                           ELSE DefaultCategory,
              reminder |-> data.reminder]
    ELSE Fallback(input)

----------------------------------------------------------------------------
(* services/geminiService.ts: breakDownTask *)

\* What generateContent can give back for the breakdown request:
\*   "error"    the request rejects
\*   "empty"    response.text is empty
\*   "garbage"  response.text is not JSON
\*   "object"   response.text is JSON, but no array
\*   "array"    response.text is a JSON array, steps
BreakdownFailure(kind) == [kind |-> kind, steps |-> << >>]

Steps(steps) == [kind |-> "array", steps |-> steps]

\* the reply sends breakDownTask into its catch block
BreakdownThrows(reply) == reply.kind \in {"error", "garbage"}

\* breakDownTask(taskText), given the reply of the service: the array, or [] in
\* every other case
breakDownTask(reply) == IF reply.kind = "array" THEN reply.steps ELSE << >>

----------------------------------------------------------------------------
(* App.tsx: the updaters handed to setTasks *)

\* mutant: the second setTasks puts the task back when it is gone
PatchOrRestore(prev, tempId, analysis) ==
    IF tempId \in Ids(prev)
    THEN [i \in DOMAIN prev |-> LET t == prev[i] IN
             IF t.id = tempId
             THEN [t EXCEPT !.text = analysis.text,
                            !.category = analysis.category,
                            !.reminder = analysis.reminder]
             ELSE t]
    ELSE << [TempTask(tempId, analysis.text, 0) EXCEPT
                !.category = analysis.category,
                !.reminder = analysis.reminder] >> \o prev

\* mutant: the second setTasks patches the head of the list, where the
\* placeholder was put
PatchHead(prev, tempId, analysis) ==
    [i \in DOMAIN prev |-> LET t == prev[i] IN
        IF i = 1
        THEN [t EXCEPT !.text = analysis.text,
                       !.category = analysis.category,
                       !.reminder = analysis.reminder]
        ELSE t]

\* mutant: the second setTasks builds the task anew from the annotation
PatchAnew(prev, tempId, analysis) ==
    [i \in DOMAIN prev |-> LET t == prev[i] IN
        IF t.id = tempId
        THEN [TempTask(tempId, analysis.text, t.createdAt) EXCEPT
                 !.category = analysis.category,
                 !.reminder = analysis.reminder]
        ELSE t]

\* mutant: the second setTasks keeps a reminder the task has got meanwhile
PatchKeepingReminder(prev, tempId, analysis) ==
    [i \in DOMAIN prev |-> LET t == prev[i] IN
        IF t.id = tempId
        THEN [t EXCEPT !.text = analysis.text,
                       !.category = analysis.category,
                       !.reminder = IF HasReminder(t) THEN t.reminder
                                    ELSE analysis.reminder]
        ELSE t]

\* handleAddTask, second setTasks: patch the placeholder in place
PatchAnalysis(prev, tempId, analysis) ==
    [i \in DOMAIN prev |-> LET t == prev[i] IN
        IF t.id = tempId
        THEN [t EXCEPT !.text = analysis.text,
                       !.category = analysis.category,
                       !.reminder = analysis.reminder]
        ELSE t]

\* mutant: a day of the month that the target month lacks becomes its last day
NextDueClamped(currentDue, recurrence, off) ==
    IF currentDue = NaT THEN NaT
    ELSE LET f  == LocalFields(currentDue, off)
             m1 == IF f.m = 12 THEN 1 ELSE f.m + 1
             y1 == IF f.m = 12 THEN f.y + 1 ELSE f.y
             clampM == IF f.d > DaysInMonth(y1, m1) THEN DaysInMonth(y1, m1) ELSE f.d
             clampY == IF f.d > DaysInMonth(f.y + 1, f.m)
                       THEN DaysInMonth(f.y + 1, f.m) ELSE f.d
         IN  CASE recurrence = "daily"   -> FromLocal[[f EXCEPT !.d = @ + 1], off]
               [] recurrence = "weekly"  -> FromLocal[[f EXCEPT !.d = @ + 7], off]
               [] recurrence = "monthly" ->
                      FromLocal[[f EXCEPT !.y = y1, !.m = m1, !.d = clampM], off]
               [] recurrence = "yearly"  ->
                      FromLocal[[f EXCEPT !.y = @ + 1, !.d = clampY], off]
               [] OTHER                  -> currentDue

\* mutant: the next occurrence is counted from the clock when the due time has
\* passed
NextDueFromNow(currentDue, recurrence, off) ==
    IF currentDue = NaT THEN NaT
    ELSE LET f == LocalFields(IF now > currentDue THEN now ELSE currentDue, off)
         IN  CASE recurrence = "daily"   -> FromLocal[[f EXCEPT !.d = @ + 1], off]
               [] recurrence = "weekly"  -> FromLocal[[f EXCEPT !.d = @ + 7], off]
               [] recurrence = "monthly" -> FromLocal[[f EXCEPT !.m = @ + 1], off]
               [] recurrence = "yearly"  -> FromLocal[[f EXCEPT !.y = @ + 1], off]
               [] OTHER                  -> currentDue

\* toggleTask: the next occurrence of a due time, one period later in local time
NextDue(currentDue, recurrence, off) ==
    IF currentDue = NaT THEN NaT
    ELSE LET f == LocalFields(currentDue, off)
         IN  CASE recurrence = "daily"   -> FromLocal[[f EXCEPT !.d = @ + 1], off]
               [] recurrence = "weekly"  -> FromLocal[[f EXCEPT !.d = @ + 7], off]
               [] recurrence = "monthly" -> FromLocal[[f EXCEPT !.m = @ + 1], off]
               [] recurrence = "yearly"  -> FromLocal[[f EXCEPT !.y = @ + 1], off]
               [] OTHER                  -> currentDue

\* mutant: the recurring branch forgets that the task is being completed
RollsWhenCompleted(task) == HasReminder(task) /\ Recurs(Rem(task))

\* toggleTask takes the recurring branch for this task
Rolls(task) == ~task.completed /\ HasReminder(task) /\ Recurs(Rem(task))

\* toISOString throws a RangeError on an Invalid Date
ToggleThrows(task, off) ==
    Rolls(task) /\ NextDue(DateParse(Rem(task).isoString, off), Rem(task).recurrence, off) = NaT

\* mutant: the toggle has no recurring branch
FlipCompleted(task, off) == [task EXCEPT !.completed = ~task.completed]

\* mutant: the recurring branch keeps the hasNotified flag of the old occurrence
RollKeepingNotified(task, off) ==
    IF ~task.completed /\ HasReminder(task) /\ Recurs(Rem(task))
    THEN LET r    == Rem(task)
             next == NextDue(DateParse(r.isoString, off), r.recurrence, off)
         IN  [task EXCEPT !.completed = FALSE,
                          !.reminder = << [r EXCEPT !.isoString = ToISOString(next)] >>]
    ELSE [task EXCEPT !.completed = ~task.completed]

\* toggleTask, the body of the map callback for the task with the id
ToggleOne(task, off) ==
    IF Rolls(task)
    THEN LET r    == Rem(task)
             next == NextDue(DateParse(r.isoString, off), r.recurrence, off)
         IN  [task EXCEPT !.completed = FALSE,
                          !.reminder = << [r EXCEPT !.isoString = ToISOString(next),
                                                    !.hasNotified = "false"] >>]
    ELSE [task EXCEPT !.completed = ~task.completed]

\* mutant: with no task of the id, the toggle falls on the head of the list
toggleTaskOrHead(prev, id, off) ==
    [i \in DOMAIN prev |->
        LET t == prev[i]
        IN  IF t.id = id \/ (i = 1 /\ id \notin Ids(prev)) THEN ToggleOne(t, off) ELSE t]

toggleTask(prev, id, off) ==
    [i \in DOMAIN prev |->
        LET t == prev[i] IN IF t.id # id THEN t ELSE ToggleOne(t, off)]

\* mutant: the task in front is removed, whatever the id
deleteTaskInFront(prev, id) == Tail(prev)

deleteTask(prev, id) == SelectSeq(prev, LAMBDA t : t.id # id)

updateSubtasks(prev, taskId, subtasks) ==
    [i \in DOMAIN prev |->
        LET t == prev[i] IN IF t.id = taskId THEN [t EXCEPT !.subtasks = subtasks] ELSE t]

toggleSubtask(prev, taskId, subtaskId) ==
    [i \in DOMAIN prev |-> LET t == prev[i] IN
        IF t.id # taskId THEN t
        ELSE [t EXCEPT !.subtasks =
                 [j \in DOMAIN t.subtasks |->
                    IF t.subtasks[j].id = subtaskId
                    THEN [t.subtasks[j] EXCEPT !.completed = ~t.subtasks[j].completed]
                    ELSE t.subtasks[j]]]]

updateTask(prev, id, newText) ==
    [i \in DOMAIN prev |->
        LET t == prev[i] IN IF t.id = id THEN [t EXCEPT !.text = newText] ELSE t]

updateReminder(prev, id, reminder) ==
    [i \in DOMAIN prev |->
        LET t == prev[i] IN IF t.id = id THEN [t EXCEPT !.reminder = reminder] ELSE t]

----------------------------------------------------------------------------
(* App.tsx: checkReminders *)

\* mutant: the early return forgets the hasNotified flag
DueIgnoringNotified(task, t, off) ==
    /\ ~task.completed
    /\ HasReminder(task)
    /\ DateParse(Rem(task).isoString, off) # NaT
    /\ t >= DateParse(Rem(task).isoString, off)

\* mutant: the early return forgets the completed flag
DueIgnoringCompleted(task, t, off) ==
    /\ HasReminder(task)
    /\ ~Notified(Rem(task))
    /\ DateParse(Rem(task).isoString, off) # NaT
    /\ t >= DateParse(Rem(task).isoString, off)

\* the task passes the early return and its due time has come
Due(task, t, off) ==
    /\ ~task.completed
    /\ HasReminder(task)
    /\ ~Notified(Rem(task))
    /\ DateParse(Rem(task).isoString, off) # NaT    \* now >= NaN is false
    /\ t >= DateParse(Rem(task).isoString, off)

\* mutant: the task is marked only when the notification could be shown
MarkWhenGranted(task) ==
    IF permission = "granted"
    THEN [task EXCEPT !.reminder = << [Rem(task) EXCEPT !.hasNotified = "true"] >>]
    ELSE task

MarkNotified(task) ==
    [task EXCEPT !.reminder = << [Rem(task) EXCEPT !.hasNotified = "true"] >>]

checkReminders(currentTasks, t, off) ==
    [i \in DOMAIN currentTasks |->
        LET task == currentTasks[i]
        IN  IF Due(task, t, off) THEN MarkNotified(task) ELSE task]

\* the notification a due task shows
Notice(task) ==
    [tag   |-> task.id,
     title |-> IF Rem(task).type = "alarm" THEN "Alarm" ELSE "Reminder",
     body  |-> task.text]

\* the notifications of one scan, in list order: only with the permission granted
Notices(currentTasks, t, off, perm) ==
    IF perm = "granted"
    THEN LET due == SelectSeq(currentTasks, LAMBDA task : Due(task, t, off))
         IN  [i \in DOMAIN due |-> Notice(due[i])]
    ELSE << >>

\* mutant: every due reminder plays the tone, whatever its type
TonesOfEveryType(currentTasks, t, off, ctx) ==
    IF ctx
    THEN LET loud == SelectSeq(currentTasks, LAMBDA task : Due(task, t, off))
         IN  [i \in DOMAIN loud |-> loud[i].id]
    ELSE << >>

\* playAlarmSound: one tone per due alarm (named here by the id of its task),
\* and none without an AudioContext
Tones(currentTasks, t, off, ctx) ==
    IF ctx
    THEN LET loud == SelectSeq(currentTasks,
                         LAMBDA task : Due(task, t, off) /\ Rem(task).type = "alarm")
         IN  [i \in DOMAIN loud |-> loud[i].id]
    ELSE << >>

----------------------------------------------------------------------------
(* components/TaskItem: the reminder form *)

\* handleReminderSave: new Date("YYYY-MM-DD") is midnight UTC of that date, and
\* setHours(h, 0, 0, 0) sets the hour of the local day that instant falls on.
SavedDue(datePart, hour, off) ==
    LET f == LocalFields(At(datePart.y, datePart.m, datePart.d, 0), off)
    IN  FromLocal[[f EXCEPT !.h = hour], off]

NewReminder(datePart, hour, recurrence, type, off) ==
    << Reminder(ToISOString(SavedDue(datePart, hour, off)),
                IF recurrence = "none" THEN Undefined ELSE recurrence,
                "false", type) >>

----------------------------------------------------------------------------
(* localStorage: the value under 'gemini-tasks', JSON.stringify, JSON.parse *)

\* What localStorage can hold under the key:
\*   "absent"   nothing: getItem returns null
\*   "garbage"  a string that is not JSON
\*   "null"     the JSON value null
\*   "array"    a JSON array of objects, list
\* A JSON object is the function from the keys it holds to their values.
Stored(kind) == [kind |-> kind, list |-> << >>]

StoredArray(list) == [kind |-> "array", list |-> list]

\* mutant: JSON.stringify leaves out every falsy property of a reminder
TruthyKeys(r) ==
    (IF r.isoString # NoIso THEN {"isoString"} ELSE {}) \cup
    (IF r.recurrence # Undefined THEN {"recurrence"} ELSE {}) \cup
    (IF r.hasNotified = "true" THEN {"hasNotified"} ELSE {}) \cup
    (IF r.type # Undefined THEN {"type"} ELSE {})

\* the properties of a reminder that JSON.stringify writes: those whose value
\* is not undefined
DefinedKeys(r) ==
    (IF r.isoString # NoIso THEN {"isoString"} ELSE {}) \cup
    (IF r.recurrence # Undefined THEN {"recurrence"} ELSE {}) \cup
    (IF r.hasNotified # Undefined THEN {"hasNotified"} ELSE {}) \cup
    (IF r.type # Undefined THEN {"type"} ELSE {})

StringifyReminder(r) ==
    [k \in DefinedKeys(r) |->
        CASE k = "isoString"   -> r.isoString
          [] k = "recurrence"  -> r.recurrence
          [] k = "hasNotified" -> (r.hasNotified = "true")
          [] k = "type"        -> r.type]

StringifyTask(task) ==
    [k \in {"id", "text", "completed", "createdAt", "subtasks", "category"} \cup
           (IF HasReminder(task) THEN {"reminder"} ELSE {}) |->
        CASE k = "id"        -> task.id
          [] k = "text"      -> task.text
          [] k = "completed" -> task.completed
          [] k = "createdAt" -> task.createdAt
          [] k = "subtasks"  -> task.subtasks
          [] k = "category"  -> task.category
          [] k = "reminder"  -> StringifyReminder(Rem(task))]

\* JSON.stringify(tasks)
Stringify(list) == StoredArray([i \in DOMAIN list |-> StringifyTask(list[i])])

\* a property that the object does not hold reads as undefined
ParseReminder(o) ==
    Reminder(IF "isoString" \in DOMAIN o THEN o.isoString ELSE NoIso,
             IF "recurrence" \in DOMAIN o THEN o.recurrence ELSE Undefined,
             IF "hasNotified" \in DOMAIN o
             THEN (IF o.hasNotified THEN "true" ELSE "false") ELSE Undefined,
             IF "type" \in DOMAIN o THEN o.type ELSE Undefined)

ParseTask(o) ==
    [id |-> o.id, text |-> o.text, completed |-> o.completed,
     createdAt |-> o.createdAt, subtasks |-> o.subtasks, category |-> o.category,
     reminder |-> IF "reminder" \in DOMAIN o THEN << ParseReminder(o.reminder) >>
                  ELSE << >>]

\* JSON.parse(saved), for a saved value that is a JSON array
Parse(value) == [i \in DOMAIN value.list |-> ParseTask(value.list[i])]

\* The initializer of useState, App.tsx:52: saved ? JSON.parse(saved) : [].
\* JSON.parse throws on "garbage"; the null it returns for "null" makes the
\* first render throw at tasks.filter.  Nothing catches either: React unmounts.
LoadThrows(value) == value.kind \in {"garbage", "null"}

Load(value) == IF value.kind = "array" THEN Parse(value) ELSE << >>

----------------------------------------------------------------------------
(* App.tsx: filteredTasks, the list of the active section *)

AppSection == { "TASKS", "REMINDERS", "BIRTHDAYS" }

\* mutant: the Reminders section takes every task that has a reminder
ShowsAnyReminder(task, section) ==
    CASE section = "TASKS"     -> ~HasReminder(task)
      [] section = "REMINDERS" -> HasReminder(task)
      [] section = "BIRTHDAYS" -> HasReminder(task) /\ Rem(task).recurrence = "yearly"
      [] OTHER                 -> FALSE

\* the callback of tasks.filter for the section
Shows(task, section) ==
    CASE section = "TASKS"     -> ~HasReminder(task)
      [] section = "REMINDERS" -> HasReminder(task) /\ Rem(task).recurrence # "yearly"
      [] section = "BIRTHDAYS" -> HasReminder(task) /\ Rem(task).recurrence = "yearly"
      [] OTHER                 -> FALSE

\* the tasks of the section, in list order; the sort that follows works on this
\* copy and only reorders it
filtered(list, section) == SelectSeq(list, LAMBDA task : Shows(task, section))

----------------------------------------------------------------------------
(* The inputs the model draws from *)

\* what the user types into the input box
Inputs == { << " " >>, << " ", "m", " " >> }

\* what the user types into the inline title editor
EditTexts == { << "e" >> }

\* the replies of the analyze request
Replies ==
    { Failure("error"), Failure("empty"), Failure("garbage"), Failure("null"),
      Json(<< >>, << >>, << >>),
      Json(<< << "c" >> >>, << "cake" >>, << >>),
      Json(<< << "c" >> >>, << "cake" >>,
           ReplyReminder(Iso("Z", At(2024, 1, 10, 9)), "daily")),
      Json(<< << "c" >> >>, << "cake" >>, ReplyReminder(NoIso, "daily")) }

\* what the user enters into the reminder form before Save Changes
SaveForms ==
    { [date |-> [y |-> 2024, m |-> 2, d |-> 1], hour |-> 12,
       recurrence |-> "none", type |-> "alarm"],
      [date |-> [y |-> 2024, m |-> 2, d |-> 29], hour |-> 0,
       recurrence |-> "yearly", type |-> "notification"] }

\* the instants at which the clock is read
Clock == { At(2024, 1, 9, 12), At(2024, 2, 1, 12) }

\* the local offsets of the browser, in hours east of UTC
TimeZones == { 2 }

\* the replies of the breakdown request
BreakdownReplies ==
    { BreakdownFailure("error"), BreakdownFailure("empty"),
      BreakdownFailure("garbage"), BreakdownFailure("object"),
      Steps(<< >>), Steps(<< << "s" >> >>) }

Permissions == { "default", "granted", "denied" }

\* the local days and hours of the recurring reminders the roll-forward is
\* tried on, and the local offsets it is tried in
RollDays ==
    { [y |-> 2024, m |-> 1, d |-> 31], [y |-> 2024, m |-> 2, d |-> 29],
      [y |-> 2023, m |-> 1, d |-> 29], [y |-> 2023, m |-> 1, d |-> 31],
      [y |-> 2024, m |-> 3, d |-> 31], [y |-> 2024, m |-> 12, d |-> 31],
      [y |-> 2024, m |-> 2, d |-> 28], [y |-> 2024, m |-> 6, d |-> 15] }

RollHours == { 0, 9, 23 }

RollZones == { 0 - 5, 0, 2 }

\* what localStorage holds under 'gemini-tasks' when the application is first
\* opened
InitialStorage == { Stored("absent"), Stored("garbage"), Stored("null") }

----------------------------------------------------------------------------
(* The state machine *)

\* the first render: the initializer of useState reads 'gemini-tasks', and the
\* effect of App.tsx:65 writes the list back once the application has mounted
Init ==
    /\ saved \in InitialStorage
    /\ tasks = Load(saved)
    /\ storage = IF LoadThrows(saved) THEN saved ELSE Stringify(tasks)
    /\ generating = {}
    /\ orphaned = NoOrphans
    /\ now = At(2024, 1, 9, 12)
    /\ tz \in TimeZones
    /\ pending = {}
    /\ nextId = 1
    /\ permission \in Permissions
    /\ permissionStatus = permission
    /\ promptOpen = FALSE
    /\ audioCtx = FALSE
    /\ emitted = << >>
    /\ tones = << >>
    /\ crashed = LoadThrows(saved)
    /\ logged = << >>
    /\ rolls = 0

\* mutant: handleUserInteraction asks for the permission whatever is known
InteractedAlwaysAsks ==
    /\ audioCtx' = TRUE
    /\ promptOpen' = TRUE
    /\ UNCHANGED << permission, permissionStatus >>

\* handleUserInteraction: initAudioEngine, and ask for the permission while the
\* React copy of it is still 'default'
Interacted ==
    /\ audioCtx' = TRUE
    /\ promptOpen' = (promptOpen \/ permissionStatus = "default")
    /\ UNCHANGED << permission, permissionStatus >>

\* useEffect(() => localStorage.setItem(...), [tasks]): every render that
\* follows a step writes the list; an unmounted application writes nothing
Persist == storage' = IF crashed' THEN storage ELSE Stringify(tasks')

\* the step shows no notification, plays no tone and logs nothing
Quiet == emitted' = << >> /\ tones' = << >> /\ logged' = << >>

\* a click or focus that reaches handleUserInteraction and nothing else
UserInteraction ==
    /\ ~crashed
    /\ Interacted
    /\ Quiet
    /\ UNCHANGED << tasks, now, tz, pending, nextId, crashed, rolls, generating, orphaned,
                    saved >>
    /\ Persist

\* the user answers (or dismisses) the permission prompt; a browser that has
\* the answer already gives it without asking
PermissionDecided(result) ==
    /\ ~crashed
    /\ promptOpen
    /\ permission # "default" => result = permission
    /\ promptOpen' = FALSE
    /\ permission' = result
    /\ permissionStatus' = result
    /\ emitted' = IF result = "granted"
                  THEN << [tag |-> 0, title |-> "Notifications Enabled", body |-> << >>] >>
                  ELSE << >>
    /\ tones' = << >>
    /\ logged' = << >>
    /\ UNCHANGED << tasks, now, tz, pending, nextId, audioCtx, crashed, rolls,
                    generating, orphaned,
                    saved >>
    /\ Persist

\* mutant: handleAddTask also returns early while an annotation is outstanding
SubmitsWhenIdle(input, outstanding) == Trim(input) # << >> /\ ~outstanding

\* handleAddTask goes past its early return: the input is not blank.  Whether
\* an annotation is outstanding (isAdding) is not asked.
Submits(input, outstanding) == Trim(input) # << >>

\* handleAddTask up to the await
AddTask(input) ==
    /\ ~crashed
    /\ Interacted
    /\ Quiet
    /\ IF ~Submits(input, pending # {})
       THEN UNCHANGED << tasks, pending, nextId >>
       ELSE /\ Len(tasks) < MaxTasks
            /\ nextId <= MaxIds
            /\ tasks' = << TempTask(nextId, Trim(input), now) >> \o tasks
            /\ pending' = pending \cup { [id |-> nextId, input |-> Trim(input),
                                           typed |-> input] }
            /\ nextId' = nextId + 1
    /\ UNCHANGED << now, tz, crashed, rolls, generating, orphaned,
                    saved >>
    /\ Persist

\* handleAddTask after the await: analyzeTask has settled
AnalyzeSettled(p, reply) ==
    /\ ~crashed
    /\ p \in pending
    /\ tasks' = PatchAnalysis(tasks, p.id, analyzeTask(p.input, reply))
    /\ pending' = pending \ { p }
    /\ emitted' = << >>
    /\ tones' = << >>
    /\ logged' = IF Fails(reply) THEN << "Gemini analysis failed:" >> ELSE << >>
    /\ UNCHANGED << now, tz, nextId, permission, permissionStatus, promptOpen,
                    audioCtx, crashed, rolls, generating, orphaned,
                    saved >>
    /\ Persist

\* toggleTask from the checkbox of a listed task
ToggleTask(id) ==
    /\ ~crashed
    /\ id \in Ids(tasks)
    /\ Interacted
    /\ Quiet
    /\ LET task == TaskOf(tasks, id)
       IN  IF ToggleThrows(task, tz)
           THEN /\ crashed' = TRUE
                /\ UNCHANGED << tasks, rolls >>
           ELSE /\ Rolls(task) => rolls < MaxRolls
                /\ tasks' = toggleTask(tasks, id, tz)
                /\ rolls' = IF Rolls(task) THEN rolls + 1 ELSE rolls
                /\ UNCHANGED crashed
    /\ UNCHANGED << now, tz, pending, nextId, generating, orphaned,
                    saved >>
    /\ Persist

\* a handler of a task card that the root's onClick does not see (the click is
\* stopped from bubbling, or the event is no click)
CardFrame ==
    /\ UNCHANGED << now, tz, pending, permission, permissionStatus, promptOpen,
                    audioCtx, crashed, rolls, generating, orphaned,
                    saved >>
    /\ Persist

\* a handler of a task card whose click bubbles to the root's onClick, which
\* runs handleUserInteraction
ClickFrame ==
    /\ Interacted
    /\ UNCHANGED << now, tz, pending, crashed, rolls, generating, orphaned,
                    saved >>
    /\ Persist

\* deleteTask from the delete button of a listed task
DeleteTask(id) ==
    /\ ~crashed
    /\ id \in Ids(tasks)
    /\ tasks' = deleteTask(tasks, id)
    /\ Quiet
    /\ UNCHANGED nextId
    /\ CardFrame

\* handleTextEditSubmit: the trimmed title, when it differs from the text
TextEditSubmit(id, editText) ==
    /\ ~crashed
    /\ id \in Ids(tasks)
    /\ Trim(editText) # TaskOf(tasks, id).text
    /\ tasks' = updateTask(tasks, id, Trim(editText))
    /\ Quiet
    /\ UNCHANGED nextId
    /\ CardFrame

\* handleReminderSave: Save Changes of the reminder form
ReminderSave(id, form) ==
    /\ ~crashed
    /\ id \in Ids(tasks)
    /\ tasks' = updateReminder(tasks, id,
                    NewReminder(form.date, form.hour, form.recurrence, form.type, tz))
    /\ Quiet
    /\ UNCHANGED nextId
    /\ ClickFrame

\* Remove of the reminder form: onUpdateReminder(task.id, undefined)
ReminderRemove(id) ==
    /\ ~crashed
    /\ id \in Ids(tasks)
    /\ tasks' = updateReminder(tasks, id, << >>)
    /\ Quiet
    /\ UNCHANGED nextId
    /\ ClickFrame

\* handleAddSubtask: append a subtask with a fresh id, while fewer than maxIds
\* ids are in use and the task has fewer than maxSubtasks subtasks
AddSubtaskWithin(id, text, maxIds, maxSubtasks) ==
    /\ ~crashed
    /\ id \in Ids(tasks)
    /\ Trim(text) # << >>
    /\ Len(TaskOf(tasks, id).subtasks) < maxSubtasks
    /\ nextId <= maxIds
    /\ tasks' = updateSubtasks(tasks, id,
                    Append(TaskOf(tasks, id).subtasks, SubTask(nextId, Trim(text))))
    /\ nextId' = nextId + 1
    /\ Quiet
    /\ ClickFrame

\* handleAddSubtask
AddSubtask(id, text) == AddSubtaskWithin(id, text, MaxIds, MaxSubtasks)

\* handleDeleteSubtask
DeleteSubtask(id, subtaskId) ==
    /\ ~crashed
    /\ id \in Ids(tasks)
    /\ subtaskId \in Ids(TaskOf(tasks, id).subtasks)
    /\ tasks' = updateSubtasks(tasks, id,
                    SelectSeq(TaskOf(tasks, id).subtasks, LAMBDA st : st.id # subtaskId))
    /\ Quiet
    /\ UNCHANGED nextId
    /\ ClickFrame

\* toggleSubtask from the checkbox of a listed subtask
ToggleSubtask(id, subtaskId) ==
    /\ ~crashed
    /\ id \in Ids(tasks)
    /\ subtaskId \in Ids(TaskOf(tasks, id).subtasks)
    /\ tasks' = toggleSubtask(tasks, id, subtaskId)
    /\ Quiet
    /\ UNCHANGED nextId
    /\ ClickFrame

\* worker.onmessage: one tick of the timer worker runs checkReminders
Tick ==
    /\ ~crashed
    /\ tasks' = checkReminders(tasks, now, tz)
    /\ emitted' = Notices(tasks, now, tz, permission)
    /\ tones' = Tones(tasks, now, tz, audioCtx)
    /\ logged' = << >>
    /\ UNCHANGED << now, tz, pending, nextId, permission, permissionStatus,
                    promptOpen, audioCtx, crashed, rolls, generating, orphaned,
                    saved >>
    /\ Persist

\* time passes
AdvanceTime(t) ==
    /\ t > now
    /\ now' = t
    /\ Quiet
    /\ UNCHANGED << tasks, tz, pending, nextId, permission, permissionStatus,
                    promptOpen, audioCtx, crashed, rolls, generating, orphaned,
                    saved >>
    /\ Persist

\* the Enable Notifications buttons, shown while the React copy of the
\* permission is not 'granted': requestNotificationPermission, and then the
\* root's onClick
EnableNotifications ==
    /\ ~crashed
    /\ permissionStatus # "granted"
    /\ promptOpen' = TRUE
    /\ audioCtx' = TRUE
    /\ Quiet
    /\ UNCHANGED << tasks, now, tz, pending, nextId, permission, permissionStatus,
                    crashed, rolls, generating, orphaned,
                    saved >>
    /\ Persist

\* handleAiBreakdown up to the await: the Break Down button of a listed task.
\* The click is not passed on to the root.
BreakdownStart(id) ==
    /\ ~crashed
    /\ id \in Ids(tasks)
    /\ ~(Len(TaskOf(tasks, id).subtasks) > 0 \/ id \in generating)
    /\ generating' = generating \cup { id }
    /\ Quiet
    /\ UNCHANGED << tasks, now, tz, pending, nextId, permission, permissionStatus,
                    promptOpen, audioCtx, crashed, rolls, orphaned, saved >>
    /\ Persist

\* handleAiBreakdown after the await: breakDownTask has settled, each step gets
\* a fresh id, and the subtasks of the task are replaced by the new ones,
\* whatever the task holds by now
BreakdownSettled(id, reply) ==
    /\ ~crashed
    /\ id \in generating
    /\ LET subtaskTexts == breakDownTask(reply)
           newSubtasks == [i \in DOMAIN subtaskTexts |->
                               SubTask(nextId + i - 1, subtaskTexts[i])]
       IN  /\ nextId + Len(subtaskTexts) - 1 <= MaxIds
           /\ Len(subtaskTexts) <= MaxSubtasks
           /\ tasks' = updateSubtasks(tasks, id, newSubtasks)
           /\ nextId' = nextId + Len(subtaskTexts)
    /\ generating' = generating \ { id }
    /\ emitted' = << >>
    /\ tones' = << >>
    /\ logged' = IF BreakdownThrows(reply)
                 THEN << "Failed to breakdown task with Gemini:" >> ELSE << >>
    /\ UNCHANGED << now, tz, pending, permission, permissionStatus, promptOpen,
                    audioCtx, crashed, rolls, orphaned, saved >>
    /\ Persist

\* the reply of a breakDownTask call arrives after the card that made the call
\* was unmounted: the same steps, but for setIsGenerating(false), which no
\* longer has a card to act on
OrphanedBreakdownSettled(id, reply) ==
    /\ ~crashed
    /\ orphaned[id] > 0
    /\ LET subtaskTexts == breakDownTask(reply)
           newSubtasks == [i \in DOMAIN subtaskTexts |->
                               SubTask(nextId + i - 1, subtaskTexts[i])]
       IN  /\ nextId + Len(subtaskTexts) - 1 <= MaxIds
           /\ Len(subtaskTexts) <= MaxSubtasks
           /\ tasks' = updateSubtasks(tasks, id, newSubtasks)
           /\ nextId' = nextId + Len(subtaskTexts)
    /\ orphaned' = [orphaned EXCEPT ![id] = @ - 1]
    /\ emitted' = << >>
    /\ tones' = << >>
    /\ logged' = IF BreakdownThrows(reply)
                 THEN << "Failed to breakdown task with Gemini:" >> ELSE << >>
    /\ UNCHANGED << now, tz, pending, permission, permissionStatus, promptOpen,
                    audioCtx, crashed, rolls, generating, saved >>
    /\ Persist

\* a tab of another section is clicked: setActiveSection and
\* handleUserInteraction.  The cards of the section that was showing are
\* unmounted, and with them their isGenerating flags; the calls they made stay
\* outstanding.  (The active section itself is not part of the state.)
SwitchSection ==
    /\ ~crashed
    /\ \A id \in generating : orphaned[id] < MaxOrphans
    /\ orphaned' = [id \in AllIds |->
                        IF id \in generating THEN orphaned[id] + 1 ELSE orphaned[id]]
    /\ generating' = {}
    /\ Interacted
    /\ Quiet
    /\ UNCHANGED << tasks, now, tz, pending, nextId, crashed, rolls, saved >>
    /\ Persist

\* the page is closed and opened again: the application starts from what
\* localStorage holds, and everything else of the old page is gone
Restart ==
    /\ saved' = storage
    /\ tasks' = Load(storage)
    /\ crashed' = LoadThrows(storage)
    /\ storage' = IF LoadThrows(storage) THEN storage ELSE Stringify(Load(storage))
    /\ pending' = {}
    /\ generating' = {}
    /\ orphaned' = NoOrphans
    /\ permissionStatus' = permission
    /\ promptOpen' = FALSE
    /\ audioCtx' = FALSE
    /\ Quiet
    /\ UNCHANGED << now, tz, nextId, permission, rolls >>

Next ==
    \/ UserInteraction
    \/ \E result \in Permissions : PermissionDecided(result)
    \/ \E input \in Inputs : AddTask(input)
    \/ \E p \in pending, reply \in Replies : AnalyzeSettled(p, reply)
    \/ \E id \in AllIds : ToggleTask(id)
    \/ \E id \in AllIds : DeleteTask(id)
    \/ \E id \in AllIds, editText \in EditTexts : TextEditSubmit(id, editText)
    \/ \E id \in AllIds, form \in SaveForms : ReminderSave(id, form)
    \/ \E id \in AllIds : ReminderRemove(id)
    \/ \E id \in AllIds, text \in Inputs : AddSubtask(id, text)
    \/ \E id \in AllIds, subtaskId \in AllIds : DeleteSubtask(id, subtaskId)
    \/ \E id \in AllIds, subtaskId \in AllIds : ToggleSubtask(id, subtaskId)
    \/ Tick
    \/ \E t \in Clock : AdvanceTime(t)

Spec == Init /\ [][Next]_vars

\* The subtasks of the cards and the breakdown of a task, in a browser that
\* has denied notifications and had nothing stored.
InitBreakdown == Init /\ permission = "denied" /\ saved = Stored("absent")

NextBreakdown ==
    \/ \E input \in Inputs : AddTask(input)
    \/ \E p \in pending, reply \in Replies : AnalyzeSettled(p, reply)
    \/ \E id \in AllIds : DeleteTask(id)
    \/ \E id \in AllIds, text \in Inputs : AddSubtask(id, text)
    \/ \E id \in AllIds, subtaskId \in AllIds : DeleteSubtask(id, subtaskId)
    \/ \E id \in AllIds, subtaskId \in AllIds : ToggleSubtask(id, subtaskId)
    \/ \E id \in AllIds : BreakdownStart(id)
    \/ \E id \in generating, reply \in BreakdownReplies : BreakdownSettled(id, reply)
    \/ \E id \in AllIds, reply \in BreakdownReplies : OrphanedBreakdownSettled(id, reply)
    \/ SwitchSection

SpecBreakdown == InitBreakdown /\ [][NextBreakdown]_vars

\* The ids of the tasks and of their subtasks: the operations that draw an id,
\* remove a record or rebuild the list, with room for two tasks and a second
\* subtask in one of them.
InitIds == Init /\ permission = "denied" /\ saved = Stored("absent")

NextIds ==
    \/ \E input \in Inputs : AddTask(input)
    \/ \E p \in pending, reply \in Replies : AnalyzeSettled(p, reply)
    \/ \E id \in AllIds : DeleteTask(id)
    \/ \E id \in AllIds, text \in Inputs : AddSubtaskWithin(id, text, MoreIds, MoreSubtasks)
    \/ \E id \in AllIds, subtaskId \in MoreOfIds : DeleteSubtask(id, subtaskId)
    \/ \E id \in AllIds, subtaskId \in MoreOfIds : ToggleSubtask(id, subtaskId)
    \/ \E id \in AllIds : BreakdownStart(id)
    \/ \E id \in generating, reply \in BreakdownReplies : BreakdownSettled(id, reply)
    \/ \E id \in AllIds, reply \in BreakdownReplies : OrphanedBreakdownSettled(id, reply)
    \/ SwitchSection
    \/ Restart

SpecIds == InitIds /\ [][NextIds]_vars

\* The task list across restarts of the page, in a browser that has denied
\* notifications.
InitStore == Init /\ permission = "denied"

NextStore ==
    \/ \E input \in Inputs : AddTask(input)
    \/ \E p \in pending, reply \in Replies : AnalyzeSettled(p, reply)
    \/ \E id \in AllIds : ToggleTask(id)
    \/ \E id \in AllIds : DeleteTask(id)
    \/ \E id \in AllIds, text \in Inputs : AddSubtask(id, text)
    \/ Tick
    \/ \E t \in Clock : AdvanceTime(t)
    \/ Restart

SpecStore == InitStore /\ [][NextStore]_vars

\* The reminder scanner under a timer that keeps ticking: the worker posts a
\* tick every ten seconds for as long as the application is mounted, so a scan
\* that stays possible is made (weak fairness of Tick).
InitTicking == Init /\ permission = "denied" /\ saved = Stored("absent")

NextTicking ==
    \/ \E input \in Inputs : AddTask(input)
    \/ \E p \in pending, reply \in Replies : AnalyzeSettled(p, reply)
    \/ \E id \in AllIds : ToggleTask(id)
    \/ \E id \in AllIds : DeleteTask(id)
    \/ \E id \in AllIds, form \in SaveForms : ReminderSave(id, form)
    \/ \E id \in AllIds : ReminderRemove(id)
    \/ Tick
    \/ \E t \in Clock : AdvanceTime(t)

SpecTicking == InitTicking /\ [][NextTicking]_vars /\ WF_vars(Tick)

\* The requests for the notification permission, in a browser that had
\* nothing stored.
InitConsent == Init /\ saved = Stored("absent")

NextConsent ==
    \/ UserInteraction
    \/ \E result \in Permissions : PermissionDecided(result)
    \/ EnableNotifications
    \/ \E input \in Inputs : AddTask(input)
    \/ \E p \in pending, reply \in Replies : AnalyzeSettled(p, reply)
    \/ \E id \in AllIds : ToggleTask(id)
    \/ \E id \in AllIds : DeleteTask(id)
    \/ Tick
    \/ \E t \in Clock : AdvanceTime(t)

SpecConsent == InitConsent /\ [][NextConsent]_vars

\* The roll-forward of toggleTask on its own: the application starts from a
\* stored list of one task with a recurring reminder, and its checkbox is
\* clicked.
RecurringTask(day, hour, recurrence, off) ==
    [TempTask(1, << "m" >>, At(2023, 1, 1, 0)) EXCEPT
        !.category = DefaultCategory,
        !.reminder = << Reminder(ToISOString(MakeLocal(day.y, day.m, day.d, hour, off)),
                                 recurrence, "false", "notification") >>]

InitRoll ==
    /\ tz \in RollZones
    /\ \E day \in RollDays, hour \in RollHours, recurrence \in Recurrences :
          saved = Stringify(<< RecurringTask(day, hour, recurrence, tz) >>)
    /\ tasks = Load(saved)
    /\ storage = Stringify(tasks)
    /\ crashed = LoadThrows(saved)
    /\ generating = {}
    /\ orphaned = NoOrphans
    /\ now = At(2024, 1, 9, 12)
    /\ pending = {}
    /\ nextId = 2
    /\ permission = "denied"
    /\ permissionStatus = permission
    /\ promptOpen = FALSE
    /\ audioCtx = FALSE
    /\ emitted = << >>
    /\ tones = << >>
    /\ logged = << >>
    /\ rolls = 0

NextRoll == \E id \in AllIds : ToggleTask(id)

SpecRoll == InitRoll /\ [][NextRoll]_vars

----------------------------------------------------------------------------
(* Vocabulary of the properties *)

\* how many of the notifications carry the tag
CountFor(notes, tag) == Len(SelectSeq(notes, LAMBDA n : n.tag = tag))

\* how many of the tones belong to the task
TonesFor(played, id) == Len(SelectSeq(played, LAMBDA x : x = id))

\* the reminder's time value, when it has one
DueTime(task) == DateParse(Rem(task).isoString, tz)
HasDueTime(task) == HasReminder(task) /\ DueTime(task) # NaT

\* the four conditions of the scanner: incomplete, reminder present, not yet
\* notified, due time at or before now
ScanDue(task) ==
    /\ task.completed = FALSE
    /\ HasReminder(task)
    /\ Rem(task).hasNotified # "true"
    /\ HasDueTime(task)
    /\ DueTime(task) <= now

----------------------------------------------------------------------------
(* C1 *)

\* C1 as claimed: a tick over a task that is incomplete, has a reminder not yet
\* notified and is due emits exactly one notification for it and leaves
\* hasNotified = true; a tick over a task already notified emits none for it.
C1_AsClaimed ==
    [][Tick =>
        \A i \in DOMAIN tasks :
            /\ ScanDue(tasks[i]) =>
                  /\ CountFor(emitted', tasks[i].id) = 1
                  /\ Rem(tasks'[i]).hasNotified = "true"
            /\ (HasReminder(tasks[i]) /\ Rem(tasks[i]).hasNotified = "true") =>
                  CountFor(emitted', tasks[i].id) = 0]_vars

\* C1 amended: the tick marks every such task notified, and emits exactly one
\* notification for it when Notification.permission is 'granted' and none
\* otherwise; a tick over a task already notified emits none for it and leaves
\* it as it is.
C1_ScanNotifiesOnce ==
    [][Tick =>
        /\ Len(tasks') = Len(tasks)
        /\ \A i \in DOMAIN tasks :
            /\ ScanDue(tasks[i]) =>
                  /\ CountFor(emitted', tasks[i].id) =
                        (IF permission = "granted" THEN 1 ELSE 0)
                  /\ tasks'[i] = [tasks[i] EXCEPT
                        !.reminder = << [Rem(tasks[i]) EXCEPT !.hasNotified = "true"] >>]
            /\ (HasReminder(tasks[i]) /\ Rem(tasks[i]).hasNotified = "true") =>
                  /\ CountFor(emitted', tasks[i].id) = 0
                  /\ tasks'[i] = tasks[i]]_vars

\* a tick has just notified a due task once and marked it
C1_Witness ==
    \E i \in DOMAIN tasks :
        /\ CountFor(emitted, tasks[i].id) = 1
        /\ ~tasks[i].completed
        /\ HasDueTime(tasks[i]) /\ DueTime(tasks[i]) <= now
        /\ Rem(tasks[i]).hasNotified = "true"

----------------------------------------------------------------------------
(* C2 *)

\* C2: a tick leaves a task as it is, and emits no notification and plays no
\* tone for it, when the task is completed, has no reminder, is already
\* notified or is due later than now; and no step ever emits a notification
\* tagged with a task that is completed.
C2_ScanLeavesOthers ==
    [][/\ Tick =>
            /\ Len(tasks') = Len(tasks)
            /\ \A i \in DOMAIN tasks :
                  (\/ tasks[i].completed
                   \/ ~HasReminder(tasks[i])
                   \/ Rem(tasks[i]).hasNotified = "true"
                   \/ (HasDueTime(tasks[i]) /\ DueTime(tasks[i]) > now))
                  => /\ tasks'[i] = tasks[i]
                     /\ CountFor(emitted', tasks[i].id) = 0
                     /\ TonesFor(tones', tasks[i].id) = 0
       /\ \A i \in DOMAIN tasks :
            tasks[i].completed =>
               /\ CountFor(emitted', tasks[i].id) = 0
               /\ TonesFor(tones', tasks[i].id) = 0]_vars

\* a tick has just notified one task and passed over a completed one whose
\* reminder is overdue and was never notified
C2_Witness ==
    /\ emitted # << >>
    /\ \E i \in DOMAIN tasks :
        /\ tasks[i].completed
        /\ HasDueTime(tasks[i]) /\ DueTime(tasks[i]) <= now
        /\ Rem(tasks[i]).hasNotified # "true"
        /\ CountFor(emitted, tasks[i].id) = 0
    /\ \E j \in DOMAIN tasks : CountFor(emitted, tasks[j].id) = 1

----------------------------------------------------------------------------
(* C3 *)

\* one unit of the recurrence after the instant t, counted on the calendar of
\* the local day t falls on: a day is 24 hours, a week 7 days, a month the
\* days of the month t is in, a year the days up to the same date a year on
OneUnitLater(t, r) ==
    LET f == LocalFields(t, tz)
        yearDays == IF IsLeap(IF f.m <= 2 THEN f.y ELSE f.y + 1) THEN 366 ELSE 365
    IN  CASE r = "daily"   -> t + HoursPerDay
          [] r = "weekly"  -> t + 7 * HoursPerDay
          [] r = "monthly" -> t + DaysInMonth(f.y, f.m) * HoursPerDay
          [] r = "yearly"  -> t + yearDays * HoursPerDay

\* the step toggles the incomplete task at position i, whose reminder recurs
TogglesRecurring(i) ==
    /\ ToggleTask(tasks[i].id)
    /\ ~tasks[i].completed
    /\ HasReminder(tasks[i])
    /\ Rem(tasks[i]).recurrence \in Recurrences

\* the task at position i is the old one one period on: incomplete, not
\* notified, due one unit later, all else as before
RolledForward(i) ==
    /\ Len(tasks') = Len(tasks)
    /\ tasks'[i].completed = FALSE
    /\ HasReminder(tasks'[i])
    /\ Rem(tasks'[i]).hasNotified = "false"
    /\ DateParse(Rem(tasks'[i]).isoString, tz) # NaT
    /\ DateParse(Rem(tasks'[i]).isoString, tz) =
           OneUnitLater(DueTime(tasks[i]), Rem(tasks[i]).recurrence)
    /\ tasks'[i] = [tasks[i] EXCEPT
           !.completed = FALSE,
           !.reminder = << [Rem(tasks[i]) EXCEPT
                               !.isoString = Rem(tasks'[i]).isoString,
                               !.hasNotified = "false"] >>]

\* C3 as claimed: toggling an incomplete task whose reminder has a recurrence
\* yields completed = false, hasNotified = false and a due time one unit of the
\* recurrence later, with id, text, subtasks, category, recurrence and mode
\* unchanged.
C3_AsClaimed ==
    [][\A i \in DOMAIN tasks : TogglesRecurring(i) => RolledForward(i)]_vars

\* the same, for the reminders whose isoString parses to a date
C3_RollsWhenParsable ==
    [][\A i \in DOMAIN tasks :
          (TogglesRecurring(i) /\ HasDueTime(tasks[i])) => RolledForward(i)]_vars

\* the toggle of a recurring task has ended in the RangeError of toISOString
C3_ToggleThrew ==
    /\ crashed
    /\ \E i \in DOMAIN tasks :
          /\ ~tasks[i].completed
          /\ HasReminder(tasks[i])
          /\ Rem(tasks[i]).recurrence \in Recurrences
          /\ ~HasDueTime(tasks[i])

----------------------------------------------------------------------------
(* C4 *)

\* the task is completed and its reminder has a recurrence
CompletedRecurring(task) ==
    task.completed /\ HasReminder(task) /\ Rem(task).recurrence # Undefined

\* C4 as claimed: in every reachable state no task is completed together with
\* a reminder that has a recurrence.
C4_AsClaimed == \A i \in DOMAIN tasks : ~CompletedRecurring(tasks[i])

\* C4 amended: no step completes a task that has a recurring reminder.  A task
\* that is completed with a recurring reminder after a step was completed
\* before it (the step gave it the recurrence, or left it alone), and a toggle
\* of an incomplete task with a recurring reminder leaves it incomplete.
C4_NeverCompletesRecurring ==
    [][/\ \A i \in DOMAIN tasks' :
            CompletedRecurring(tasks'[i]) =>
                \E j \in DOMAIN tasks :
                    tasks[j].id = tasks'[i].id /\ tasks[j].completed
       /\ \A j \in DOMAIN tasks :
            (TogglesRecurring(j) /\ ~crashed') =>
                /\ Ids(tasks') = Ids(tasks)
                /\ ~TaskOf(tasks', tasks[j].id).completed]_vars

\* a toggle has rolled a recurring task forward and left it incomplete
C4_Witness ==
    /\ rolls > 0
    /\ \E i \in DOMAIN tasks :
          /\ ~tasks[i].completed
          /\ HasReminder(tasks[i])
          /\ Rem(tasks[i]).recurrence \in Recurrences
          /\ Rem(tasks[i]).isoString.fmt = "ms"
          /\ Rem(tasks[i]).hasNotified = "false"

----------------------------------------------------------------------------
(* C5 *)

\* the step toggles the task at position i, which takes the plain branch: its
\* reminder is absent or has no recurrence, or the task is completed
TogglesPlain(i) ==
    /\ ToggleTask(tasks[i].id)
    /\ \/ ~HasReminder(tasks[i])
       \/ Rem(tasks[i]).recurrence = Undefined
       \/ tasks[i].completed

\* C5: toggling a task whose reminder is absent or has no recurrence, and
\* toggling any task from complete back to incomplete, flips that task's
\* completed flag and changes nothing else of the task list.
C5_PlainToggleFlipsOnly ==
    [][\A i \in DOMAIN tasks :
          TogglesPlain(i) =>
              /\ ~crashed'
              /\ tasks' = [tasks EXCEPT ![i].completed = ~tasks[i].completed]]_vars

\* a plain toggle has completed a task and left its notified reminder alone,
\* next to a task that was not toggled
C5_Witness ==
    /\ Len(tasks) = 2
    /\ \E i \in DOMAIN tasks :
          /\ tasks[i].completed
          /\ HasReminder(tasks[i])
          /\ Rem(tasks[i]).recurrence = Undefined
          /\ Rem(tasks[i]).hasNotified = "true"

----------------------------------------------------------------------------
(* C6 *)

\* the step gives the task at position i of the new list a reminder time that
\* the task did not have before
IsoStringChanged(i) ==
    /\ HasReminder(tasks'[i])
    /\ \E j \in DOMAIN tasks :
          /\ tasks[j].id = tasks'[i].id
          /\ \/ ~HasReminder(tasks[j])
             \/ Rem(tasks[j]).isoString # Rem(tasks'[i]).isoString

\* C6: every step that changes a task's reminder.isoString (roll-forward,
\* reminder save, annotation patch) leaves the reminder with hasNotified not
\* true.
C6_NewTimeNotNotified ==
    [][\A i \in DOMAIN tasks' :
          IsoStringChanged(i) => Rem(tasks'[i]).hasNotified # "true"]_vars

\* the roll-forward of a daily reminder has left an occurrence that is already
\* due and can fire
C6_Witness ==
    /\ rolls > 0
    /\ \E i \in DOMAIN tasks :
          /\ ScanDue(tasks[i])
          /\ Rem(tasks[i]).recurrence = "daily"
          /\ Rem(tasks[i]).isoString = ToISOString(At(2024, 1, 11, 9))
          /\ Rem(tasks[i]).hasNotified = "false"

----------------------------------------------------------------------------
(* C7 *)

\* the task's reminder has been notified and its time is past
Terminal(task) ==
    /\ HasReminder(task)
    /\ Rem(task).hasNotified = "true"
    /\ HasDueTime(task)
    /\ DueTime(task) <= now

\* the step is a manual reminder edit of the task at position i, or the
\* roll-forward of its recurrence
EditsOrRolls(i) ==
    \/ \E form \in SaveForms : ReminderSave(tasks[i].id, form)
    \/ ReminderRemove(tasks[i].id)
    \/ ToggleTask(tasks[i].id) /\ Rolls(tasks[i])

\* the step resolves the outstanding annotation of the task at position i
ResolvesAnnotation(i) ==
    \E p \in pending, reply \in Replies : p.id = tasks[i].id /\ AnalyzeSettled(p, reply)

\* the step keeps the reminder of the task at position i, as long as the task
\* is listed, and shows no notification for it
KeepsReminder(i) ==
    /\ \A j \in DOMAIN tasks' :
          tasks'[j].id = tasks[i].id => tasks'[j].reminder = tasks[i].reminder
    /\ CountFor(emitted', tasks[i].id) = 0

\* C7 as claimed: once a reminder has hasNotified = true and a past isoString,
\* every step other than a manual reminder edit and a roll-forward keeps it as
\* it is and emits no notification for the task; ticks, plain toggles, text
\* edits, subtask operations and the resolution of the task's outstanding
\* annotation among them.
C7_AsClaimed ==
    [][\A i \in DOMAIN tasks :
          (Terminal(tasks[i]) /\ ~EditsOrRolls(i)) => KeepsReminder(i)]_vars

\* the same, for every step but the resolution of the task's annotation
C7_TerminalButForAnnotation ==
    [][\A i \in DOMAIN tasks :
          (Terminal(tasks[i]) /\ ~EditsOrRolls(i) /\ ~ResolvesAnnotation(i))
              => KeepsReminder(i)]_vars

----------------------------------------------------------------------------
(* C8 *)

\* C8: when the annotation of a task that has been deleted resolves, with a
\* result or with the fallback, the task list after the resolution is the task
\* list before it.
C8_ResolutionAfterDelete ==
    [][\A p \in pending, reply \in Replies :
          (AnalyzeSettled(p, reply) /\ p.id \notin Ids(tasks)) =>
              /\ tasks' = tasks
              /\ p.id \notin Ids(tasks')]_vars

\* the annotation of the one task ever added has failed after the task was
\* deleted, and the list is still empty
C8_Witness ==
    /\ nextId = 2
    /\ pending = {}
    /\ logged = << "Gemini analysis failed:" >>
    /\ tasks = << >>

----------------------------------------------------------------------------
(* C9 *)

\* the step submits an input that is not blank
SubmitsInput(input) == AddTask(input) /\ Trim(input) # << >>

\* the new list is the old one behind a placeholder for the input, and the
\* annotation of the placeholder is outstanding
PlaceholderInserted(input) ==
    /\ Len(tasks') = Len(tasks) + 1
    /\ Tail(tasks') = tasks
    /\ tasks'[1].id \notin Ids(tasks)
    /\ tasks'[1].text = Trim(input)
    /\ tasks'[1].completed = FALSE
    /\ tasks'[1].subtasks = << >>
    /\ tasks'[1].reminder = << >>
    /\ tasks'[1].category = PlaceholderCategory
    /\ \E p \in pending' \ pending : p.id = tasks'[1].id

\* the bounds of the model leave room for one more task
RoomForTask == Len(tasks) < MaxTasks /\ nextId <= MaxIds

\* the bounds of the model leave room for the toggle of the task
RoomForToggle(id) ==
    (Rolls(TaskOf(tasks, id)) /\ ~ToggleThrows(TaskOf(tasks, id), tz)) => rolls < MaxRolls

\* add, toggle, delete, the edits and the tick can all be taken
OperationsEnabled ==
    /\ ENABLED Tick
    /\ \A input \in Inputs : RoomForTask => ENABLED AddTask(input)
    /\ \A id \in Ids(tasks) :
          /\ RoomForToggle(id) => ENABLED ToggleTask(id)
          /\ ENABLED DeleteTask(id)
          /\ \A form \in SaveForms : ENABLED ReminderSave(id, form)
          /\ \A editText \in EditTexts :
                Trim(editText) # TaskOf(tasks, id).text => ENABLED TextEditSubmit(id, editText)

\* the step of an operation shows its effect on the task list at once.  (A
\* toggle that throws ends the application, with or without an annotation
\* outstanding.)
TakesEffect ==
    /\ Tick => \A i \in DOMAIN tasks' : ~Due(tasks'[i], now, tz)
    /\ \A id \in Ids(tasks) :
          /\ DeleteTask(id) => id \notin Ids(tasks')
          /\ ToggleTask(id) =>
                \/ crashed'
                \/ /\ id \in Ids(tasks')
                   /\ TaskOf(tasks', id) # TaskOf(tasks, id)
          /\ \A form \in SaveForms :
                ReminderSave(id, form) =>
                    /\ HasReminder(TaskOf(tasks', id))
                    /\ Rem(TaskOf(tasks', id)).type = form.type
          /\ \A editText \in EditTexts :
                TextEditSubmit(id, editText) => TaskOf(tasks', id).text = Trim(editText)

----------------------------------------------------------------------------
(* C10 *)

\* the analyze call fails: network error, empty reply, or a reply that does
\* not parse to a JSON object
FailedCall(reply) == reply.kind \in {"error", "empty", "garbage", "null"}

\* C10 as claimed: when the analyze call fails for a task submitted with input
\* X, the task, if still listed after the call settles, has text = X, the
\* default category and no reminder.
C10_AsClaimed ==
    [][\A p \in pending, reply \in Replies :
          (AnalyzeSettled(p, reply) /\ FailedCall(reply) /\ p.id \in Ids(tasks')) =>
              /\ TaskOf(tasks', p.id).text = p.typed
              /\ TaskOf(tasks', p.id).category = DefaultCategory
              /\ TaskOf(tasks', p.id).reminder = << >>]_vars

\* C10 amended: the text is X without its leading and trailing white space.
C10_FallbackOnFailure ==
    [][\A p \in pending, reply \in Replies :
          (AnalyzeSettled(p, reply) /\ FailedCall(reply) /\ p.id \in Ids(tasks')) =>
              /\ TaskOf(tasks', p.id).text = Trim(p.typed)
              /\ TaskOf(tasks', p.id).category = DefaultCategory
              /\ TaskOf(tasks', p.id).reminder = << >>]_vars

\* the annotation of a listed task has just failed, and the task carries the
\* fallback
C10_Witness ==
    /\ logged = << "Gemini analysis failed:" >>
    /\ \E i \in DOMAIN tasks :
          /\ tasks[i].text = << "m" >>
          /\ tasks[i].category = DefaultCategory
          /\ tasks[i].reminder = << >>
          /\ \A p \in pending : p.id # tasks[i].id


----------------------------------------------------------------------------
(* C11 *)

\* breakDownTask got no array of steps out of the reply
BreakdownFailed(reply) == reply.kind # "array"

\* the breakdown of listed task id settles in this step, with a failed reply
FailedBreakdownSettles(id) ==
    /\ id \in generating
    /\ id \in Ids(tasks)
    /\ \E reply \in BreakdownReplies :
          BreakdownFailed(reply) /\ BreakdownSettled(id, reply)

\* C11: when a breakdown call fails or its reply is malformed, the subtasks of
\* the task after the call has settled are those it had just before, the ones
\* the user added while the call was outstanding included.
C11_AsClaimed ==
    [][\A id \in AllIds :
          FailedBreakdownSettles(id) =>
              TaskOf(tasks', id).subtasks = TaskOf(tasks, id).subtasks]_vars

\* what does hold: a failed breakdown leaves the task without subtasks, and
\* every other task as it was
C11_FailedBreakdownEmpties ==
    [][\A id \in AllIds :
          FailedBreakdownSettles(id) =>
              /\ TaskOf(tasks', id) = [TaskOf(tasks, id) EXCEPT !.subtasks = << >>]
              /\ \A i \in DOMAIN tasks : tasks[i].id # id => tasks'[i] = tasks[i]]_vars

\* a failed breakdown has just emptied a task that held a subtask
C11_Wiped ==
    /\ logged = << "Failed to breakdown task with Gemini:" >>
    /\ \E i \in DOMAIN tasks : tasks[i].subtasks = << >> /\ nextId > MaxIds


----------------------------------------------------------------------------
(* C12 *)

\* nothing under the storage key was a task sequence when the application
\* started
StartedFromNothing == saved.kind # "array"

\* no click or keystroke has reached the application since it started: the
\* list is still the one it started with, but for what the delete buttons and
\* the reminder scanner did to it
Untouched == ~audioCtx /\ pending = {} /\ generating = {}

\* C12: started with the stored value absent or corrupt, the application has
\* an empty task list and is usable, not in an error state.
C12_AsClaimed == StartedFromNothing /\ Untouched => tasks = << >> /\ ~crashed

\* what does hold: with nothing stored the application starts empty and usable
C12_AbsentStartsEmpty ==
    saved.kind = "absent" /\ Untouched => tasks = << >> /\ ~crashed

\* the first render threw on a stored value that is no task sequence
C12_FailedToStart == LoadThrows(saved) /\ Untouched /\ crashed


----------------------------------------------------------------------------
(* C13 *)

\* the application has mounted at least once: the effect has written the list
Written == storage.kind = "array"

\* C13: the stored value is read only when the application starts and is
\* written after every change of the list, so a restart brings back the list
\* as it was after the last completed change: writing the list and reading it
\* back gives the same list.
C13_RestartRestores ==
    /\ [](Written => storage = Stringify(tasks))
    /\ [][Restart => tasks' = tasks]_vars
    /\ [][saved' # saved => Restart]_vars

\* the application has been started again from a stored list that holds a
\* reminder with its hasNotified flag lowered and a completed task
C13_Witness ==
    /\ saved.kind = "array"
    /\ tasks = Load(saved)
    /\ Untouched
    /\ \E i \in DOMAIN tasks :
          HasReminder(tasks[i]) /\ Rem(tasks[i]).hasNotified = "false"
    /\ \E i \in DOMAIN tasks : tasks[i].completed


----------------------------------------------------------------------------
(* C14 *)

\* the reminder has a timestamp, and a recurrence that is absent or one of the
\* four periods
WellFormed(r) ==
    /\ r.isoString # NoIso
    /\ r.recurrence \in Recurrences \cup { Undefined }

\* C14: a reply of the analyze service that is JSON but not of the declared
\* shape counts as a failed call, so every reminder in the task list has a
\* timestamp and a recurrence that is absent or one of the four periods.
C14_AsClaimed ==
    \A i \in DOMAIN tasks : HasReminder(tasks[i]) => WellFormed(Rem(tasks[i]))

\* a reply whose reminder has no isoString was stored as it came, without the
\* failure being logged
C14_StoredAsReplied ==
    /\ logged = << >>
    /\ \E i \in DOMAIN tasks :
          /\ HasReminder(tasks[i])
          /\ Rem(tasks[i]) = Reminder(NoIso, "daily", Undefined, Undefined)


----------------------------------------------------------------------------
(* C15 *)

\* C15: without the notification permission, a tick over a due task shows no
\* notification and raises no error, and changes the list as it does with the
\* permission: the task's hasNotified becomes true.
C15_SilentWithoutPermission ==
    [][Tick /\ permission # "granted" =>
        /\ emitted' = << >>
        /\ logged' = << >>
        /\ ~crashed'
        /\ \A i \in DOMAIN tasks :
              ScanDue(tasks[i]) =>
                  tasks'[i] = [tasks[i] EXCEPT
                      !.reminder = << [Rem(tasks[i]) EXCEPT !.hasNotified = "true"] >>]]_vars

\* a tick has marked a due task in a browser that has denied notifications
C15_Witness ==
    /\ permission = "denied"
    /\ emitted = << >>
    /\ \E i \in DOMAIN tasks :
          /\ ~tasks[i].completed
          /\ HasDueTime(tasks[i]) /\ DueTime(tasks[i]) <= now
          /\ Rem(tasks[i]).hasNotified = "true"

----------------------------------------------------------------------------
(* C16 *)

\* C16: a tick plays the alarm tone for a task exactly when the task is due,
\* its reminder is of type alarm and a user interaction has created the audio
\* engine; without the engine the tone is skipped, nothing is logged, and the
\* task is marked all the same; a reminder of type notification plays no tone.
C16_ToneIffAlarmUnlocked ==
    [][Tick =>
        /\ logged' = << >>
        /\ ~crashed'
        /\ \A i \in DOMAIN tasks :
              /\ TonesFor(tones', tasks[i].id) =
                    (IF ScanDue(tasks[i]) /\ Rem(tasks[i]).type = "alarm" /\ audioCtx
                     THEN 1 ELSE 0)
              /\ ScanDue(tasks[i]) => Rem(tasks'[i]).hasNotified = "true"]_vars

\* a tick has just played the tone of a due alarm
C16_Witness ==
    /\ audioCtx
    /\ \E i \in DOMAIN tasks :
          /\ TonesFor(tones, tasks[i].id) = 1
          /\ Rem(tasks[i]).type = "alarm"
          /\ Rem(tasks[i]).hasNotified = "true"


----------------------------------------------------------------------------
(* C17 *)

\* C17: the changes of the list are applied one after the other, each to the
\* list as it is by then: when the annotation of a task resolves, every other
\* task stays exactly as it was just before, with whatever was done to it
\* while the annotation was outstanding.
C17_ResolutionLeavesOthers ==
    [][\A p \in pending :
          (\E reply \in Replies : AnalyzeSettled(p, reply)) =>
              /\ Len(tasks') = Len(tasks)
              /\ \A i \in DOMAIN tasks : tasks[i].id # p.id => tasks'[i] = tasks[i]]_vars

\* the annotation of a task has just failed and given it the fallback, while
\* a task added after it stands completed and with a subtask or a reminder
C17_Witness ==
    /\ logged = << "Gemini analysis failed:" >>
    /\ \E i, j \in DOMAIN tasks :
          /\ tasks[j].id < tasks[i].id
          /\ tasks[j].category = DefaultCategory
          /\ tasks[i].completed
          /\ HasReminder(tasks[i])


----------------------------------------------------------------------------
(* C18 *)

\* the listed task id is incomplete and its reminder is due and not notified
Overdue(id) == id \in Ids(tasks) /\ ScanDue(TaskOf(tasks, id))

\* the task has been marked notified, or completed, or deleted, or its
\* reminder has been removed or given another time that has not come
Settled(id) ==
    \/ id \notin Ids(tasks)
    \/ LET task == TaskOf(tasks, id)
       IN  \/ task.completed
           \/ ~HasReminder(task)
           \/ Rem(task).hasNotified = "true"
           \/ ~HasDueTime(task)
           \/ DueTime(task) > now

\* C18: while the timer keeps ticking, every incomplete task with a due
\* reminder not yet notified is in the end marked notified, unless it is
\* completed or deleted or its reminder is edited or removed first.
C18_AsClaimed == \A id \in AllIds : Overdue(id) ~> Settled(id)

\* what does hold: it is marked unless the application has been unmounted by
\* an updater that threw
C18_MarkedWhileMounted == \A id \in AllIds : Overdue(id) ~> (Settled(id) \/ crashed)

\* a task is overdue in an application that a throwing updater has unmounted
C18_OverdueUnmounted == crashed /\ \E id \in AllIds : Overdue(id)


----------------------------------------------------------------------------
(* C19 *)

\* the reply carries a reminder whose time has passed
PastReminder(reply) ==
    /\ reply.kind = "json"
    /\ reply.data[1].reminder # << >>
    /\ DateParse(reply.data[1].reminder[1].isoString, tz) # NaT
    /\ DateParse(reply.data[1].reminder[1].isoString, tz) < now

\* the task holds a reminder as the analyze service replied it, and its time
\* has passed
HoldsPastReply(task) ==
    /\ HasReminder(task)
    /\ Rem(task).hasNotified = Undefined
    /\ HasDueTime(task)
    /\ DueTime(task) < now

\* C19: a reminder of the analyze service whose time has already passed is put
\* on the task as it came, and the next tick of the scanner fires for the task
\* when it is still incomplete: it marks the task notified and, with the
\* permission granted, shows its notification.
C19_PastReminderFires ==
    /\ [][\A p \in pending, reply \in Replies :
             (PastReminder(reply) /\ AnalyzeSettled(p, reply) /\ p.id \in Ids(tasks)) =>
                 /\ TaskOf(tasks', p.id).reminder = reply.data[1].reminder
                 /\ HoldsPastReply(TaskOf(tasks', p.id))]_vars
    /\ [][Tick =>
             \A i \in DOMAIN tasks :
                 (HoldsPastReply(tasks[i]) /\ ~tasks[i].completed) =>
                     /\ Rem(tasks'[i]).hasNotified = "true"
                     /\ CountFor(emitted', tasks[i].id) =
                           (IF permission = "granted" THEN 1 ELSE 0)]_vars

\* a tick has just shown the notification of a task whose reminder, as the
\* service replied it, lay before the moment the task was added
C19_Witness ==
    \E i \in DOMAIN tasks :
        /\ HasDueTime(tasks[i])
        /\ DueTime(tasks[i]) < tasks[i].createdAt
        /\ Rem(tasks[i]).type = Undefined
        /\ Rem(tasks[i]).hasNotified = "true"
        /\ CountFor(emitted, tasks[i].id) = 1


----------------------------------------------------------------------------
(* C20 *)

\* the local day and hour of a reminder
LocalDue(task) == LocalFields(DueTime(task), tz)

\* the day one month on: the same day of the next month, and when that month
\* is too short, as many days into the month after it as the day overshoots
MonthOn(f) ==
    LET m1 == IF f.m = 12 THEN 1 ELSE f.m + 1
        y1 == IF f.m = 12 THEN f.y + 1 ELSE f.y
        over == f.d - DaysInMonth(y1, m1)
    IN  IF over <= 0
        THEN [y |-> y1, m |-> m1, d |-> f.d, h |-> f.h]
        ELSE [y |-> y1, m |-> m1 + 1, d |-> over, h |-> f.h]

\* the day one year on: the same day of the same month, and 1 March for a
\* 29 February when the next year has none
YearOn(f) ==
    IF f.m = 2 /\ f.d = 29 /\ ~IsLeap(f.y + 1)
    THEN [y |-> f.y + 1, m |-> 3, d |-> 1, h |-> f.h]
    ELSE [y |-> f.y + 1, m |-> f.m, d |-> f.d, h |-> f.h]

\* C20: the monthly roll-forward goes to the same day of the next month and
\* carries the days that month lacks into the month after it, without clamping
\* (31 January 2024 rolls to 2 March 2024); the yearly roll-forward of a
\* 29 February likewise goes to 1 March.
C20_RollOverflows ==
    [][\A i \in DOMAIN tasks :
          TogglesRecurring(i) =>
              /\ Rem(tasks[i]).recurrence = "monthly" =>
                    LocalDue(tasks'[i]) = MonthOn(LocalDue(tasks[i]))
              /\ Rem(tasks[i]).recurrence = "yearly" =>
                    LocalDue(tasks'[i]) = YearOn(LocalDue(tasks[i]))
              /\ (Rem(tasks[i]).recurrence = "monthly"
                    /\ LocalDue(tasks[i]) = [y |-> 2024, m |-> 1, d |-> 31, h |-> 9]) =>
                    LocalDue(tasks'[i]) = [y |-> 2024, m |-> 3, d |-> 2, h |-> 9]
              /\ (Rem(tasks[i]).recurrence = "yearly"
                    /\ LocalDue(tasks[i]) = [y |-> 2024, m |-> 2, d |-> 29, h |-> 9]) =>
                    LocalDue(tasks'[i]) = [y |-> 2025, m |-> 3, d |-> 1, h |-> 9]]_vars

\* the monthly reminder of 31 January 2024 has been rolled to 2 March 2024
C20_Witness ==
    /\ rolls = 1
    /\ saved = Stringify(<< RecurringTask([y |-> 2024, m |-> 1, d |-> 31], 9, "monthly", tz) >>)
    /\ \E i \in DOMAIN tasks :
          LocalDue(tasks[i]) = [y |-> 2024, m |-> 3, d |-> 2, h |-> 9]


----------------------------------------------------------------------------
(* C21 *)

\* how many times the list of the section holds the task with the id
TimesIn(section, id) ==
    Len(SelectSeq(filtered(tasks, section), LAMBDA task : task.id = id))

\* C21: the three sections partition the task list: a task without a reminder
\* is in Tasks only, a task whose reminder is not yearly is in Reminders only,
\* a task with a yearly reminder is in Birthdays only, each exactly once.
C21_SectionsPartition ==
    \A i \in DOMAIN tasks :
        LET task == tasks[i]
            home == IF ~HasReminder(task) THEN "TASKS"
                    ELSE IF Rem(task).recurrence = "yearly" THEN "BIRTHDAYS"
                    ELSE "REMINDERS"
        IN  \A section \in AppSection :
                TimesIn(section, task.id) = (IF section = home THEN 1 ELSE 0)

\* the list holds a birthday next to a task of another section
C21_Witness ==
    /\ filtered(tasks, "BIRTHDAYS") # << >>
    /\ filtered(tasks, "TASKS") \o filtered(tasks, "REMINDERS") # << >>


----------------------------------------------------------------------------
(* C22 *)

\* the ids handed out so far that no listed task has
MissingIds == { id \in AllIds : id < nextId /\ id \notin Ids(tasks) }

\* each updater of the cards, applied to the list with the id, gives the list
UpdatersKeep(id) ==
    /\ toggleTask(tasks, id, tz) = tasks
    /\ deleteTask(tasks, id) = tasks
    /\ \A editText \in EditTexts : updateTask(tasks, id, Trim(editText)) = tasks
    /\ updateReminder(tasks, id, << >>) = tasks
    /\ \A form \in SaveForms :
          updateReminder(tasks, id,
              NewReminder(form.date, form.hour, form.recurrence, form.type, tz)) = tasks
    /\ updateSubtasks(tasks, id, << SubTask(id, << "s" >>) >>) = tasks
    /\ \A subtaskId \in AllIds : toggleSubtask(tasks, id, subtaskId) = tasks
    /\ \A reply \in Replies :
          PatchAnalysis(tasks, id, analyzeTask(<< "m" >>, reply)) = tasks

\* C22: every patch by id (toggle, delete, text edit, reminder edit, subtask
\* replace, subtask toggle, annotation resolution, breakdown resolution) with
\* an id that no listed task has leaves the list as it is and raises no error.
C22_MissingIdIsNoOp ==
    /\ [](\A id \in MissingIds : UpdatersKeep(id))
    /\ [][\A p \in pending :
             (p.id \notin Ids(tasks) /\ \E reply \in Replies : AnalyzeSettled(p, reply)) =>
                 tasks' = tasks /\ ~crashed']_vars
    /\ [][\A id \in generating :
             (id \notin Ids(tasks)
                /\ \E reply \in BreakdownReplies : BreakdownSettled(id, reply)) =>
                 tasks' = tasks /\ ~crashed']_vars

\* the breakdown of a deleted task has just failed, next to a listed task
\* whose own breakdown is still outstanding
C22_Witness ==
    /\ logged = << "Failed to breakdown task with Gemini:" >>
    /\ tasks # << >>
    /\ Ids(tasks) \subseteq generating
    /\ MissingIds # {}


----------------------------------------------------------------------------
(* C23 *)

\* the React copy of the permission says the user has decided
Decided == permissionStatus \in { "granted", "denied" }

\* the step makes a request for the permission where none was outstanding
NewRequest == ~promptOpen /\ promptOpen'

\* the permission is asked for as soon as the application has started, while
\* it is undecided
C23_RequestsAtStart == (~audioCtx /\ permissionStatus = "default") => promptOpen

\* once the user has decided, no step makes a request
C23_NoRequestOnceDecided == [][Decided => ~NewRequest]_vars

----------------------------------------------------------------------------
(* C24 *)

\* the annotation of the task at position i resolves in this step
AnnotationResolves(i) ==
    \E p \in pending :
        p.id = tasks[i].id /\ \E reply \in Replies : AnalyzeSettled(p, reply)

\* C24: when the annotation of a listed task resolves, only the text, the
\* category and the reminder of the task can change: its id, its completed
\* flag, its creation time, its subtasks and its place in the list stay what
\* they were just before.
C24_ResolutionKeepsRest ==
    [][\A i \in DOMAIN tasks :
          AnnotationResolves(i) =>
              /\ Len(tasks') = Len(tasks)
              /\ tasks'[i].id = tasks[i].id
              /\ tasks'[i].completed = tasks[i].completed
              /\ tasks'[i].createdAt = tasks[i].createdAt
              /\ tasks'[i].subtasks = tasks[i].subtasks]_vars

\* the annotation of the only task ever added has just failed, and the task
\* stands completed and with the subtask it was given meanwhile
C24_Witness ==
    /\ logged = << "Gemini analysis failed:" >>
    /\ Len(tasks) = 1
    /\ tasks[1].id = 1
    /\ tasks[1].completed
    /\ Ids(tasks[1].subtasks) = { 2 }


----------------------------------------------------------------------------
(* C25 *)

\* what the annotation gives for the submitted input: the fields of the reply,
\* and for a failed call or a missing field the fallback values
AnnotatedText(input, reply) ==
    IF reply.kind = "json" /\ reply.data[1].text # << >> /\ reply.data[1].text[1] # << >>
    THEN reply.data[1].text[1] ELSE input

AnnotatedCategory(reply) ==
    IF reply.kind = "json" /\ reply.data[1].category # << >>
    THEN reply.data[1].category[1] ELSE DefaultCategory

AnnotatedReminder(reply) ==
    IF reply.kind = "json" THEN reply.data[1].reminder ELSE << >>

\* C25: after the annotation of a listed task has resolved, the text, the
\* category and the reminder of the task are those of the annotation (or the
\* fallback values), whatever text or reminder the user gave the task while
\* the annotation was outstanding.
C25_AnnotationWritesLast ==
    [][\A p \in pending, reply \in Replies :
          (AnalyzeSettled(p, reply) /\ p.id \in Ids(tasks)) =>
              /\ TaskOf(tasks', p.id).text = AnnotatedText(p.input, reply)
              /\ TaskOf(tasks', p.id).category = AnnotatedCategory(reply)
              /\ TaskOf(tasks', p.id).reminder = AnnotatedReminder(reply)]_vars

\* the annotation of the only task ever added has just failed and left it
\* without the recurring reminder that the user had given it and rolled forward
C25_Witness ==
    /\ logged = << "Gemini analysis failed:" >>
    /\ nextId = 2
    /\ rolls = 1
    /\ Len(tasks) = 1
    /\ ~HasReminder(tasks[1])


----------------------------------------------------------------------------
(* C26 *)

\* how many breakDownTask calls are outstanding for the task
InFlight(id) == (IF id \in generating THEN 1 ELSE 0) + orphaned[id]

\* the step starts a breakdown for the task
StartsBreakdown(id) == BreakdownStart(id)

\* a breakdown of the listed task settles in this step with the steps
StepsArrive(id, steps) ==
    /\ id \in Ids(tasks)
    /\ BreakdownSettled(id, Steps(steps)) \/ OrphanedBreakdownSettled(id, Steps(steps))

\* C26: a breakdown is started for a task only when the task has no subtasks
\* and no breakdown is outstanding for it, so at most one is in flight per
\* task; when it returns steps, the subtasks of the task become exactly those
\* steps in order, each incomplete and with a fresh id, in place of whatever
\* subtasks the task held.
C26_AsClaimed ==
    /\ [](\A id \in AllIds : InFlight(id) <= 1)
    /\ [][\A id \in AllIds :
             StartsBreakdown(id) =>
                 TaskOf(tasks, id).subtasks = << >> /\ InFlight(id) = 0]_vars

\* what does hold: a breakdown is started only for a task without subtasks
\* whose card has no call outstanding, and the steps that arrive replace the
\* subtasks of the task, in order, incomplete, with ids not handed out before
C26_GuardOfTheCard ==
    /\ [][\A id \in AllIds :
             StartsBreakdown(id) =>
                 TaskOf(tasks, id).subtasks = << >> /\ id \notin generating]_vars
    /\ [][\A id \in AllIds, reply \in BreakdownReplies :
             (reply.kind = "array" /\ StepsArrive(id, reply.steps)) =>
                 LET new == TaskOf(tasks', id).subtasks
                 IN  /\ Len(new) = Len(reply.steps)
                     /\ \A i \in DOMAIN new :
                           /\ new[i].text = reply.steps[i]
                           /\ new[i].completed = FALSE
                           /\ new[i].id = nextId + i - 1]_vars

\* two breakdown calls are outstanding for one task
C26_TwoInFlight == \E id \in AllIds : id \in Ids(tasks) /\ InFlight(id) = 2


----------------------------------------------------------------------------
(* C27 *)

\* the due time of the task at position i after the step
DueTimeAfter(i) == DateParse(Rem(tasks'[i]).isoString, tz)

\* the step rolls the task at position i forward: the toggle of an incomplete
\* task with a recurring reminder that has a due time
RollsForward(i) == TogglesRecurring(i) /\ HasDueTime(tasks[i])

\* the scanner will take the task at position i after the step
ScanDueAfter(i) ==
    /\ tasks'[i].completed = FALSE
    /\ HasReminder(tasks'[i])
    /\ Rem(tasks'[i]).hasNotified # "true"
    /\ DueTimeAfter(i) # NaT
    /\ DueTimeAfter(i) <= now'

\* C27: the roll-forward adds exactly one period to the stored due time,
\* whatever the clock says: the new isoString is strictly later than the old
\* one, but for a reminder overdue by more than one period it is still in the
\* past, and the next tick of the scanner notifies the task again (it marks
\* the reminder as notified and, with the permission granted, shows the
\* notification).
C27_RollAddsOnePeriod ==
    /\ [][\A i \in DOMAIN tasks :
             RollsForward(i) =>
                 LET old == DueTime(tasks[i])
                     one == OneUnitLater(old, Rem(tasks[i]).recurrence)
                 IN  /\ DueTimeAfter(i) = one
                     /\ DueTimeAfter(i) > old
                     /\ one < now => (DueTimeAfter(i) < now' /\ ScanDueAfter(i))]_vars
    /\ [][\A i \in DOMAIN tasks :
             (Tick /\ rolls > 0 /\ ScanDue(tasks[i])) =>
                 /\ Rem(tasks'[i]).hasNotified = "true"
                 /\ permission = "granted" => CountFor(emitted', tasks[i].id) = 1]_vars

\* a task was rolled forward to a due time that had already passed, and the
\* scanner has just notified it
C27_Witness ==
    /\ rolls > 0
    /\ permission = "granted"
    /\ \E i \in DOMAIN tasks :
          /\ ~tasks[i].completed
          /\ HasDueTime(tasks[i])
          /\ Rem(tasks[i]).recurrence = "daily"
          /\ DueTime(tasks[i]) = At(2024, 1, 11, 9)
          /\ DueTime(tasks[i]) < now
          /\ Rem(tasks[i]).hasNotified = "true"
          /\ CountFor(emitted, tasks[i].id) = 1


----------------------------------------------------------------------------
(* C28 *)

\* the ids of a list of tasks or of subtasks, in list order
IdSeq(list) == [i \in DOMAIN list |-> list[i].id]

\* no id occurs twice in the list
DistinctIds(list) == \A i, j \in DOMAIN list : list[i].id = list[j].id => i = j

\* the sequence without its element at position i
Without(seq, i) == [j \in 1 .. Len(seq) - 1 |-> IF j < i THEN seq[j] ELSE seq[j + 1]]

\* the tasks of the step keep their ids: the ids of the list are as before,
\* but for one that has gone or a new one in front
KeepsTaskIds ==
    \/ IdSeq(tasks') = IdSeq(tasks)
    \/ \E i \in DOMAIN tasks : IdSeq(tasks') = Without(IdSeq(tasks), i)
    \/ /\ tasks' # << >>
       /\ Tail(IdSeq(tasks')) = IdSeq(tasks)
       /\ tasks'[1].id \notin Ids(tasks)

\* C28: in every reachable state the tasks of the list have pairwise distinct
\* ids and the subtasks of each task have pairwise distinct ids; no operation
\* changes the id of an existing task.
C28_IdsDistinctAndKept ==
    /\ [](DistinctIds(tasks) /\ \A i \in DOMAIN tasks : DistinctIds(tasks[i].subtasks))
    /\ [][KeepsTaskIds]_vars

\* two tasks are listed and one of them holds two subtasks
C28_Witness ==
    /\ Len(tasks) = 2
    /\ \E i \in DOMAIN tasks : Len(tasks[i].subtasks) = 2


----------------------------------------------------------------------------
(* C29 *)

\* the step submits an input that is empty or blank
SubmitsBlank(input) == AddTask(input) /\ Trim(input) = << >>

\* the step adds a task or deletes one
AddsOrDeletes ==
    \/ \E input \in Inputs : SubmitsInput(input)
    \/ \E id \in AllIds : DeleteTask(id)

\* add puts the new task in front, delete removes the task with the id and no
\* other, and every other step keeps the ids of the list in their order
ListKeepsShape ==
    /\ \A input \in Inputs :
          SubmitsInput(input) =>
              /\ Tail(tasks') = tasks
              /\ tasks'[1].id \notin Ids(tasks)
              /\ tasks'[1].text = Trim(input)
    /\ \A id \in AllIds :
          DeleteTask(id) =>
              \E i \in DOMAIN tasks : tasks[i].id = id /\ tasks' = Without(tasks, i)
    /\ ~AddsOrDeletes => IdSeq(tasks') = IdSeq(tasks)

====
